---------------------------- MODULE Spec2Model ----------------------------
(***************************************************************************)
(* Model of the multipart upload code of mc-aws-serverless:                *)
(*                                                                         *)
(*   src/src/s3_multi_part_upload.py                                       *)
(*       S3MultipartUploader.upload_large_file, .resume_upload             *)
(*   src/src/async_uploads/async-upload_with_sqs.py                        *)
(*       upload_to_s3_background, update_job_status, initiate_upload,      *)
(*       upload_chunk, upload_direct, get_upload_status                    *)
(*                                                                         *)
(* A file's content is identified by its byte offsets: a chunk read from   *)
(* a file is the half-open range [lo, hi) of offsets it holds, and the     *)
(* ETag the blob store returns for a part is the fingerprint of exactly    *)
(* that range.  Sizes are in abstract units (one unit stands for a fixed   *)
(* number of bytes).                                                       *)
(*                                                                         *)
(* Every call on a collaborator (blob store, status store, local file      *)
(* system, caller's callback) is one step whose outcome is chosen          *)
(* nondeterministically among "returns" and the exceptions it can raise.   *)
(***************************************************************************)
EXTENDS Integers, Sequences, FiniteSets, TLC

\* ------------------------------------------------------------------ bounds
\* Largest file size (units) drawn as input.
MaxSize == 4
\* Largest part size (units) drawn as input; part sizes are 1..MaxChunk.
MaxChunk == 2
\* Largest max_retries drawn as input; max_retries is 1..MaxRetries.
MaxRetries == 3
\* Longest uploaded_parts list the caller of resume_upload supplies.
MaxAcked == 2

\* default of the max_retries parameter of upload_large_file
DefaultMaxRetries == 3

VARIABLES
    \* ---- the run of one orchestrator function
    entry,          \* function being run: "upload_large_file", "resume_upload",
                    \* "upload_to_s3_background", or "idle" (no run)
    pc,             \* position of the run in that function
    file_path,      \* parameter: the local file (named by the job it belongs to)
    job_id,         \* parameter of upload_to_s3_background
    chunk_size,     \* parameter chunk_size / module constant CHUNK_SIZE
    max_retries,    \* parameter of upload_large_file
    callback,       \* parameter of upload_large_file: TRUE when one is given
    uploaded_parts, \* parameter of resume_upload
    file_size,      \* local: os.path.getsize(file_path)
    total_parts,    \* local: math.ceil(file_size / chunk_size)
    upload_id,      \* local: "unbound" until create returns, then "token"
    parts,          \* local: list of [PartNumber, ETag]
    bytes_uploaded, \* local
    part_num,       \* local: loop variable
    attempt,        \* local: retry loop variable of upload_large_file
    f_pos,          \* read position of the open file object f
    chunk_data,     \* local: the chunk last read
    exc,            \* the exception being handled / propagated
    result,         \* "running", "returned", "raised"
    \* ---- local file system
    files,          \* [path -> [exists, len]]
    \* ---- blob store
    s3_session,     \* multipart session of the token: "none", "open",
                    \* "completed", "aborted", "expired"
    s3_parts,       \* parts stored under the token: [part number -> chunk or NoChunk]
    s3_object,      \* offsets of the assembled object (<<>> before completion)
    \* ---- history of the calls issued to the blob store in this run
    put_log,        \* sequence of [PartNumber, Body, outcome] of upload_part calls
    create_calls,
    complete_args,  \* sequence of the Parts lists given to complete_multipart_upload
    abort_log,      \* sequence of the outcomes of the abort_multipart_upload calls
    late_calls,     \* calls issued with the token after complete/abort succeeded
    remove_log,     \* sequence of the outcomes of the os.remove calls of this run
    fault_budget,   \* faults the collaborators may still inject
    \* ---- status store (redis) and queue
    job_store,      \* [job id -> record under key job:<id>, or NoRecord]
    status_log,     \* [job id -> sequence of statuses written under job:<id>]
    upload_store,   \* [job id -> record under key upload:<id>, or NoRecord]
    queue,          \* the rq queue 'uploads': sequence of job ids
    now,            \* int(time.time())
    requests,       \* number of API requests served
    \* ---- history of the API requests
    received,       \* [job id -> number of chunks upload_chunk has received]
    issued,         \* [job id -> number of initiate / direct calls given that id]
    enqueue_log,    \* the enqueue calls of upload_chunk: set of
                    \* [job, chunk_number, total_chunks, received]
    response,       \* the last response of get_upload_status
    \* ---- handler.py: the image catalog, its bucket and the last request
    table,          \* ImagesTable: [image id -> item, or NoItem]
    bucket,         \* image-bucket: [s3 key -> bytes of the object, or NoObject]
    uuids,          \* number of uuid4 values drawn so far
    h_sent,         \* [image id -> the body["image"] its upload request carried]
    h_req,          \* the last request (event) served
    h_calls,        \* the calls on s3 and table made while serving it
    h_resp          \* its response, or the exception that left the function

runVars == <<entry, pc, file_path, job_id, chunk_size, max_retries, callback,
             uploaded_parts, file_size, total_parts, upload_id, parts,
             bytes_uploaded, part_num, attempt, f_pos, chunk_data, exc, result>>
s3Vars == <<s3_session, s3_parts, s3_object>>
callVars == <<put_log, create_calls, complete_args, abort_log, late_calls, remove_log>>
histVars == <<callVars, fault_budget>>
hVars == <<table, bucket, uuids, h_sent, h_req, h_calls, h_resp>>
reqVars == <<received, issued, enqueue_log, response, hVars>>
apiVars == <<job_store, status_log, upload_store, queue, now, requests, reqVars>>
vars == <<runVars, files, s3Vars, histVars, apiVars>>


\* ----------------------------------------------------------------- values
\* Clock values and file names that make up job ids.
MaxClock == 1
Filenames == {"a"}
\* job_id = f"upload_{int(time.time())}_{filename}"
MakeJobId(t, filename) == <<t, filename>>
JobIds == {MakeJobId(t, n) : t \in 0..MaxClock, n \in Filenames}
\* The job / path used when a function is invoked directly.
DirectJob == MakeJobId(0, "a")
\* os.path.join(UPLOAD_FOLDER, f'{job_id}.tmp'): one path per job id
TempPath(j) == j

Min(a, b) == IF a <= b THEN a ELSE b
\* Mutation of CeilDiv: the part count rounded down (file_size // chunk_size).
CeilDiv_Floor(a, b) == a \div b
\* math.ceil(a / b) for a >= 0, b > 0
CeilDiv(a, b) == (a + b - 1) \div b
\* Part numbers that can occur.
PartNums == 1..MaxSize

NoChunk == [lo |-> 0, hi |-> 0]
\* f.read(n) at position pos of a file of length len
Read(pos, n, len) == [lo |-> Min(pos, len), hi |-> Min(pos + n, len)]
\* Mutation of ChunkLen: the length of a chunk taken to be the file offset
\* at its end.
ChunkLen_End(c) == c.hi
\* len(chunk)
ChunkLen(c) == c.hi - c.lo
\* the bytes of a chunk, as the sequence of their offsets in the source
Bytes(c) == [i \in 1..(c.hi - c.lo) |-> c.lo + i - 1]

RECURSIVE Concat(_)
Concat(ss) == IF ss = <<>> THEN <<>> ELSE Head(ss) \o Concat(Tail(ss))

\* the part numbers of a Parts list, in list order
PartNumbersOf(ps) == [i \in DOMAIN ps |-> ps[i].PartNumber]
Part(n, etag) == [PartNumber |-> n, ETag |-> etag]

NoExc == [kind |-> "none", at |-> "none", part |-> 0, attempts |-> 0]
Raise(kind, at) == [kind |-> kind, at |-> at, part |-> 0, attempts |-> 0]
\* Exception(f"Failed to upload part {part_num} after {max_retries} attempts")
RetriesExhausted(p, m) == [kind |-> "Exception", at |-> "upload_part", part |-> p, attempts |-> m]

\* Exceptions a blob-store call raises: botocore's ClientError (an error
\* response of the backend) or another fault (BotoCoreError: connection,
\* timeout)
BackendErrors == {"ClientError", "Fault"}

\* ------------------------------------------------------------- blob store
SessionClosed == s3_session \in {"completed", "aborted"}
Late == IF SessionClosed THEN 1 ELSE 0

\* A collaborator's call may fail although it could have succeeded (an
\* injected fault) as long as the fault budget lasts.
Faults(kinds) == IF fault_budget > 0 THEN kinds ELSE {}
\* The budget after a call: an injected fault uses one unit; a success, or a
\* failure the state forces (forced), uses none.
Charge(outcome, forced) ==
    fault_budget' = IF outcome = "ok" \/ forced THEN fault_budget ELSE fault_budget - 1

\* Outcomes of create_multipart_upload
CreateOutcomes == {"ok"} \cup Faults(BackendErrors)
\* Outcomes of upload_part / complete_multipart_upload: on a session that is
\* not open the backend answers NoSuchUpload (a ClientError)
CallOutcomes == IF s3_session = "open" THEN {"ok"} \cup Faults(BackendErrors) ELSE {"ClientError"}
\* Outcomes of abort_multipart_upload
AbortOutcomes == IF s3_session = "open" THEN {"ok"} \cup Faults({"error"}) ELSE {"error"}

\* s3_client.create_multipart_upload(Bucket, Key)
CreateCall(outcome) ==
    /\ create_calls' = create_calls + 1
    /\ s3_session' = IF outcome = "ok" THEN "open" ELSE s3_session
    /\ Charge(outcome, FALSE)
    /\ UNCHANGED <<s3_parts, s3_object, put_log, complete_args, abort_log, late_calls, remove_log>>

\* s3_client.upload_part(Bucket, Key, PartNumber=n, UploadId, Body=body)
PutCall(n, body, outcome) ==
    /\ put_log' = Append(put_log, [PartNumber |-> n, Body |-> body, outcome |-> outcome])
    /\ s3_parts' = IF outcome = "ok" THEN [s3_parts EXCEPT ![n] = body] ELSE s3_parts
    /\ late_calls' = late_calls + Late
    /\ Charge(outcome, s3_session # "open")
    /\ UNCHANGED <<s3_session, s3_object, create_calls, complete_args, abort_log, remove_log>>

\* the object the blob store assembles from a Parts list
Assemble(ps) == Concat([i \in DOMAIN ps |-> Bytes(s3_parts[ps[i].PartNumber])])

\* s3_client.complete_multipart_upload(Bucket, Key, UploadId, MultipartUpload={'Parts': ps})
CompleteCall(ps, outcome) ==
    /\ complete_args' = Append(complete_args, ps)
    /\ s3_session' = IF outcome = "ok" THEN "completed" ELSE s3_session
    /\ s3_object' = IF outcome = "ok" THEN Assemble(ps) ELSE s3_object
    /\ late_calls' = late_calls + Late
    /\ Charge(outcome, s3_session # "open")
    /\ UNCHANGED <<s3_parts, put_log, create_calls, abort_log, remove_log>>

\* s3_client.abort_multipart_upload(Bucket, Key, UploadId)
AbortCall(outcome) ==
    /\ abort_log' = Append(abort_log, outcome)
    /\ s3_session' = IF outcome = "ok" THEN "aborted" ELSE s3_session
    /\ s3_parts' = IF outcome = "ok" THEN [n \in PartNums |-> NoChunk] ELSE s3_parts
    /\ late_calls' = late_calls + Late
    /\ Charge(outcome, s3_session # "open")
    /\ UNCHANGED <<s3_object, put_log, create_calls, complete_args, remove_log>>

\* --------------------------------------------------- upload_large_file
\* lines 46-47: file_size, total_parts (outside the try block)
ULF_GetSize ==
    /\ entry = "upload_large_file" /\ pc = "getsize"
    /\ IF files[file_path].exists
          THEN /\ file_size' = files[file_path].len
               /\ total_parts' = CeilDiv(files[file_path].len, chunk_size)
               /\ pc' = "create"
               /\ UNCHANGED <<exc, result>>
          ELSE /\ exc' = Raise("FileNotFoundError", "getsize")
               /\ result' = "raised"
               /\ pc' = "done"
               /\ UNCHANGED <<file_size, total_parts>>
    /\ UNCHANGED <<entry, file_path, job_id, chunk_size, max_retries, callback,
                   uploaded_parts, upload_id, parts, bytes_uploaded, part_num,
                   attempt, f_pos, chunk_data>>
    /\ UNCHANGED <<files, s3Vars, histVars, apiVars>>

\* lines 56-65: create_multipart_upload; parts = [], bytes_uploaded = 0
ULF_Create ==
    /\ entry = "upload_large_file" /\ pc = "create"
    /\ \E outcome \in CreateOutcomes :
          /\ CreateCall(outcome)
          /\ IF outcome = "ok"
                THEN /\ upload_id' = "token"
                     /\ pc' = "next_part"
                     /\ exc' = exc
                ELSE /\ exc' = Raise(outcome, "create")
                     /\ pc' = "except"
                     /\ upload_id' = upload_id
    /\ parts' = <<>> /\ bytes_uploaded' = 0
    /\ f_pos' = 0 /\ part_num' = 0
    /\ UNCHANGED <<entry, file_path, job_id, chunk_size, max_retries, callback,
                   uploaded_parts, file_size, total_parts, attempt, chunk_data, result>>
    /\ UNCHANGED <<files, apiVars>>

\* lines 68-73: next iteration of "for part_num in range(1, total_parts + 1)":
\* read the chunk and enter the retry loop; after the last part, go on to
\* complete
ULF_NextPart ==
    /\ entry = "upload_large_file" /\ pc = "next_part"
    /\ IF part_num < total_parts
          THEN /\ part_num' = part_num + 1
               /\ chunk_data' = Read(f_pos, chunk_size, files[file_path].len)
               /\ f_pos' = Read(f_pos, chunk_size, files[file_path].len).hi
               /\ attempt' = 0
               /\ pc' = "upload_part"
          ELSE /\ pc' = "complete"
               /\ UNCHANGED <<part_num, chunk_data, f_pos, attempt>>
    /\ UNCHANGED <<entry, file_path, job_id, chunk_size, max_retries, callback,
                   uploaded_parts, file_size, total_parts, upload_id, parts,
                   bytes_uploaded, exc, result>>
    /\ UNCHANGED <<files, s3Vars, histVars, apiVars>>

\* Mutation of ULF_OnClientError: the first ClientError is raised at once,
\* without a retry.
ULF_OnClientError_NoRetry ==
    /\ exc' = RetriesExhausted(part_num, max_retries)
    /\ pc' = "except"
    /\ attempt' = attempt

\* Mutation of ULF_OnClientError: after the last attempt nothing is raised
\* and the loop goes on to the next part.
ULF_OnClientError_Swallow ==
    IF attempt < max_retries - 1
       THEN /\ attempt' = attempt + 1
            /\ pc' = "upload_part"
            /\ exc' = exc
       ELSE /\ pc' = "next_part"
            /\ UNCHANGED <<attempt, exc>>

\* lines 98-102: except ClientError: retry, or raise once the attempts are used up
ULF_OnClientError ==
    IF attempt < max_retries - 1
       THEN /\ attempt' = attempt + 1
            /\ pc' = "upload_part"
            /\ exc' = exc
       ELSE /\ exc' = RetriesExhausted(part_num, max_retries)
            /\ pc' = "except"
            /\ attempt' = attempt

\* Mutation of ULF_UploadPart: every exception of upload_part is retried, not
\* only ClientError.
ULF_UploadPart_RetryAny ==
    /\ entry = "upload_large_file" /\ pc = "upload_part"
    /\ attempt < max_retries
    /\ \E outcome \in CallOutcomes :
          /\ PutCall(part_num, chunk_data, outcome)
          /\ CASE outcome = "ok" ->
                    /\ parts' = Append(parts, Part(part_num, chunk_data))
                    /\ bytes_uploaded' = bytes_uploaded + ChunkLen(chunk_data)
                    /\ pc' = IF callback THEN "callback" ELSE "next_part"
                    /\ UNCHANGED <<attempt, exc>>
               [] OTHER ->
                    /\ ULF_OnClientError
                    /\ UNCHANGED <<parts, bytes_uploaded>>
    /\ UNCHANGED <<entry, file_path, job_id, chunk_size, max_retries, callback,
                   uploaded_parts, file_size, total_parts, upload_id, part_num,
                   f_pos, chunk_data, result>>
    /\ UNCHANGED <<files, apiVars>>

\* lines 73-102: one attempt of the retry loop (max_retries >= 1, so the
\* loop is left only by break or by an exception)
ULF_UploadPart ==
    /\ entry = "upload_large_file" /\ pc = "upload_part"
    /\ attempt < max_retries
    /\ \E outcome \in CallOutcomes :
          /\ PutCall(part_num, chunk_data, outcome)
          /\ CASE outcome = "ok" ->
                    /\ parts' = Append(parts, Part(part_num, chunk_data))
                    /\ bytes_uploaded' = bytes_uploaded + ChunkLen(chunk_data)
                    /\ pc' = IF callback THEN "callback" ELSE "next_part"
                    /\ UNCHANGED <<attempt, exc>>
               [] outcome = "ClientError" ->
                    /\ ULF_OnClientError
                    /\ UNCHANGED <<parts, bytes_uploaded>>
               [] OTHER ->
                    /\ exc' = Raise(outcome, "upload_part")
                    /\ pc' = "except"
                    /\ UNCHANGED <<parts, bytes_uploaded, attempt>>
    /\ UNCHANGED <<entry, file_path, job_id, chunk_size, max_retries, callback,
                   uploaded_parts, file_size, total_parts, upload_id, part_num,
                   f_pos, chunk_data, result>>
    /\ UNCHANGED <<files, apiVars>>

\* lines 93-96: callback(part_num, total_parts, bytes_uploaded); break
ULF_Callback ==
    /\ entry = "upload_large_file" /\ pc = "callback"
    /\ \E outcome \in {"ok"} \cup Faults({"CallbackError"}) :
          /\ Charge(outcome, FALSE)
          /\ IF outcome = "ok"
                THEN pc' = "next_part" /\ exc' = exc
                ELSE pc' = "except" /\ exc' = Raise(outcome, "callback")
    /\ UNCHANGED <<entry, file_path, job_id, chunk_size, max_retries, callback,
                   uploaded_parts, file_size, total_parts, upload_id, parts,
                   bytes_uploaded, part_num, attempt, f_pos, chunk_data, result>>
    /\ UNCHANGED <<files, s3Vars, callVars, apiVars>>

\* lines 105-113: complete_multipart_upload; return result
ULF_Complete ==
    /\ entry = "upload_large_file" /\ pc = "complete"
    /\ \E outcome \in CallOutcomes :
          /\ CompleteCall(parts, outcome)
          /\ IF outcome = "ok"
                THEN pc' = "done" /\ result' = "returned" /\ exc' = exc
                ELSE pc' = "except" /\ result' = result
                     /\ exc' = Raise(outcome, "complete")
    /\ UNCHANGED <<entry, file_path, job_id, chunk_size, max_retries, callback,
                   uploaded_parts, file_size, total_parts, upload_id, parts,
                   bytes_uploaded, part_num, attempt, f_pos, chunk_data>>
    /\ UNCHANGED <<files, apiVars>>

\* lines 115-127: except Exception: abort (its own failure swallowed), raise.
\* With upload_id unbound (create raised) evaluating the call's arguments
\* raises NameError, which the bare except swallows: no call is issued.
ULF_Except ==
    /\ entry = "upload_large_file" /\ pc = "except"
    /\ IF upload_id = "unbound"
          THEN UNCHANGED <<s3Vars, histVars>>
          ELSE \E outcome \in AbortOutcomes : AbortCall(outcome)
    /\ pc' = "done" /\ result' = "raised"
    /\ UNCHANGED <<entry, file_path, job_id, chunk_size, max_retries, callback,
                   uploaded_parts, file_size, total_parts, upload_id, parts,
                   bytes_uploaded, part_num, attempt, f_pos, chunk_data, exc>>
    /\ UNCHANGED <<files, apiVars>>

upload_large_file ==
    \/ ULF_GetSize
    \/ ULF_Create
    \/ ULF_NextPart
    \/ ULF_UploadPart
    \/ ULF_Callback
    \/ ULF_Complete
    \/ ULF_Except

\* -------------------------------------------------------- resume_upload
\* Mutation of UploadedPartNums: the uploaded parts taken to be the first
\* len(uploaded_parts) parts of the file.
UploadedPartNums_Prefix == 1..Len(uploaded_parts)

\* line 143: uploaded_part_nums = {part['PartNumber'] for part in uploaded_parts}
UploadedPartNums == {uploaded_parts[i].PartNumber : i \in DOMAIN uploaded_parts}

\* lines 141-147: file_size, total_parts, parts = list(uploaded_parts)
RU_GetSize ==
    /\ entry = "resume_upload" /\ pc = "getsize"
    /\ IF files[file_path].exists
          THEN /\ file_size' = files[file_path].len
               /\ total_parts' = CeilDiv(files[file_path].len, chunk_size)
               /\ parts' = uploaded_parts
               /\ pc' = "next_part"
               /\ UNCHANGED <<exc, result>>
          ELSE /\ exc' = Raise("FileNotFoundError", "getsize")
               /\ result' = "raised"
               /\ pc' = "done"
               /\ UNCHANGED <<file_size, total_parts, parts>>
    /\ UNCHANGED <<entry, file_path, job_id, chunk_size, max_retries, callback,
                   uploaded_parts, upload_id, bytes_uploaded, part_num,
                   attempt, f_pos, chunk_data>>
    /\ UNCHANGED <<files, s3Vars, histVars, apiVars>>

\* lines 150-154: next iteration of the for loop: read the chunk, and skip
\* the part when its number is among the uploaded ones
RU_NextPart ==
    /\ entry = "resume_upload" /\ pc = "next_part"
    /\ IF part_num < total_parts
          THEN /\ part_num' = part_num + 1
               /\ chunk_data' = Read(f_pos, chunk_size, files[file_path].len)
               /\ f_pos' = Read(f_pos, chunk_size, files[file_path].len).hi
               /\ pc' = IF (part_num + 1) \in UploadedPartNums
                           THEN "next_part" ELSE "upload_part"
          ELSE /\ pc' = "complete"
               /\ UNCHANGED <<part_num, chunk_data, f_pos>>
    /\ UNCHANGED <<entry, file_path, job_id, chunk_size, max_retries, callback,
                   uploaded_parts, file_size, total_parts, upload_id, parts,
                   bytes_uploaded, attempt, exc, result>>
    /\ UNCHANGED <<files, s3Vars, histVars, apiVars>>

\* lines 156-169: upload_part, parts.append; an exception leaves the function
RU_UploadPart ==
    /\ entry = "resume_upload" /\ pc = "upload_part"
    /\ \E outcome \in CallOutcomes :
          /\ PutCall(part_num, chunk_data, outcome)
          /\ IF outcome = "ok"
                THEN /\ parts' = Append(parts, Part(part_num, chunk_data))
                     /\ pc' = "next_part"
                     /\ UNCHANGED <<exc, result>>
                ELSE /\ exc' = Raise(outcome, "upload_part")
                     /\ result' = "raised"
                     /\ pc' = "done"
                     /\ parts' = parts
    /\ UNCHANGED <<entry, file_path, job_id, chunk_size, max_retries, callback,
                   uploaded_parts, file_size, total_parts, upload_id,
                   bytes_uploaded, part_num, attempt, f_pos, chunk_data>>
    /\ UNCHANGED <<files, apiVars>>

\* lines 172-179: complete_multipart_upload with parts as built; return
RU_Complete ==
    /\ entry = "resume_upload" /\ pc = "complete"
    /\ \E outcome \in CallOutcomes :
          /\ CompleteCall(parts, outcome)
          /\ IF outcome = "ok"
                THEN result' = "returned" /\ exc' = exc
                ELSE result' = "raised" /\ exc' = Raise(outcome, "complete")
    /\ pc' = "done"
    /\ UNCHANGED <<entry, file_path, job_id, chunk_size, max_retries, callback,
                   uploaded_parts, file_size, total_parts, upload_id, parts,
                   bytes_uploaded, part_num, attempt, f_pos, chunk_data>>
    /\ UNCHANGED <<files, apiVars>>

resume_upload ==
    \/ RU_GetSize
    \/ RU_NextPart
    \/ RU_UploadPart
    \/ RU_Complete

\* ---------------------------------------------------- update_job_status
NoRecord == [status |-> "absent"]
\* no get_upload_status request served yet
NoResponse == [request |-> <<>>, code |-> 0, body |-> [error |-> "none"]]
\* 3600 * 24: the seconds a key written by setex lives
RetentionSeconds == 3600 * 24
\* redis_conn.get(key): the value of a key that was set and has not expired
redis_get(store, key) ==
    IF store[key] # NoRecord /\ now < store[key].expires_at THEN store[key] ELSE NoRecord
NoMeta == [has |-> "none", error |-> NoExc]
ResultMeta == [has |-> "result", error |-> NoExc]
\* {'error': str(e)}
ErrorMeta(e) == [has |-> "error", error |-> e]
\* a progress value num/den (percent), kept exact
Pct(n) == [num |-> n, den |-> 1]
\* Mutation of Progress: the bytes uploaded taken to be whole parts (the
\* number of parts uploaded times the part size).
Progress_WholeParts(b, size) ==
    [num |-> ((b + chunk_size - 1) \div chunk_size) * chunk_size * 100, den |-> size]
\* (bytes_uploaded / file_size) * 100
Progress(b, size) == [num |-> b * 100, den |-> size]

\* Mutation of update_job_status: a write over an existing record keeps the
\* expiry the record had (the window is not set anew).
update_job_status_KeepExpiry(j, status, progress, metadata) ==
    /\ job_store' = [job_store EXCEPT ![j] =
                        [status |-> status, job_id |-> j, progress |-> progress,
                         updated_at |-> now, metadata |-> metadata,
                         expires_at |-> IF job_store[j] = NoRecord
                                           THEN now + RetentionSeconds
                                           ELSE job_store[j].expires_at]]
    /\ status_log' = [status_log EXCEPT ![j] = Append(@, status)]
    /\ UNCHANGED <<upload_store, queue, now, requests, reqVars>>

\* lines 143-158: redis_conn.setex(f'job:{job_id}', 3600 * 24, json.dumps(job_data))
update_job_status(j, status, progress, metadata) ==
    /\ job_store' = [job_store EXCEPT ![j] =
                        [status |-> status, job_id |-> j, progress |-> progress,
                         updated_at |-> now, metadata |-> metadata,
                         expires_at |-> now + RetentionSeconds]]
    /\ status_log' = [status_log EXCEPT ![j] = Append(@, status)]
    /\ UNCHANGED <<upload_store, queue, now, requests, reqVars>>

\* Outcomes of a call on the status store
StoreOutcomes == {"ok"} \cup Faults({"RedisError"})

\* ---------------------------------------------- upload_to_s3_background
\* line 56: update_job_status(job_id, 'processing', 0)
BG_StatusProcessing ==
    /\ entry = "upload_to_s3_background" /\ pc = "status_processing"
    /\ \E outcome \in StoreOutcomes :
          /\ Charge(outcome, FALSE)
          /\ IF outcome = "ok"
                THEN /\ update_job_status(job_id, "processing", Pct(0), NoMeta)
                     /\ pc' = "getsize" /\ exc' = exc
                ELSE /\ pc' = "except" /\ exc' = Raise(outcome, "status_processing")
                     /\ UNCHANGED apiVars
    /\ UNCHANGED <<entry, file_path, job_id, chunk_size, max_retries, callback,
                   uploaded_parts, file_size, total_parts, upload_id, parts,
                   bytes_uploaded, part_num, attempt, f_pos, chunk_data, result>>
    /\ UNCHANGED <<files, s3Vars, callVars>>

\* line 58: file_size = os.path.getsize(file_path)
BG_GetSize ==
    /\ entry = "upload_to_s3_background" /\ pc = "getsize"
    /\ IF files[file_path].exists
          THEN /\ file_size' = files[file_path].len
               /\ pc' = "create" /\ exc' = exc
          ELSE /\ exc' = Raise("FileNotFoundError", "getsize")
               /\ pc' = "except" /\ file_size' = file_size
    /\ UNCHANGED <<entry, file_path, job_id, chunk_size, max_retries, callback,
                   uploaded_parts, total_parts, upload_id, parts,
                   bytes_uploaded, part_num, attempt, f_pos, chunk_data, result>>
    /\ UNCHANGED <<files, s3Vars, histVars, apiVars>>

\* lines 61-72: create_multipart_upload; parts = [], bytes_uploaded = 0,
\* part_num = 1; open the file
BG_Create ==
    /\ entry = "upload_to_s3_background" /\ pc = "create"
    /\ \E outcome \in CreateOutcomes :
          /\ CreateCall(outcome)
          /\ IF outcome = "ok"
                THEN /\ upload_id' = "token"
                     /\ parts' = <<>> /\ bytes_uploaded' = 0
                     /\ part_num' = 1 /\ f_pos' = 0
                     /\ pc' = "read" /\ exc' = exc
                ELSE /\ exc' = Raise(outcome, "create")
                     /\ pc' = "except"
                     /\ UNCHANGED <<upload_id, parts, bytes_uploaded, part_num, f_pos>>
    /\ UNCHANGED <<entry, file_path, job_id, chunk_size, max_retries, callback,
                   uploaded_parts, file_size, total_parts, attempt, chunk_data, result>>
    /\ UNCHANGED <<files, apiVars>>

\* lines 73-76: chunk = f.read(CHUNK_SIZE); if not chunk: break
BG_Read ==
    /\ entry = "upload_to_s3_background" /\ pc = "read"
    /\ chunk_data' = Read(f_pos, chunk_size, files[file_path].len)
    /\ f_pos' = Read(f_pos, chunk_size, files[file_path].len).hi
    /\ pc' = IF ChunkLen(Read(f_pos, chunk_size, files[file_path].len)) = 0
                THEN "complete" ELSE "upload_part"
    /\ UNCHANGED <<entry, file_path, job_id, chunk_size, max_retries, callback,
                   uploaded_parts, file_size, total_parts, upload_id, parts,
                   bytes_uploaded, part_num, attempt, exc, result>>
    /\ UNCHANGED <<files, s3Vars, histVars, apiVars>>

\* lines 79-93: upload_part (a single call, no retry), parts.append,
\* bytes_uploaded += len(chunk), progress = (bytes_uploaded / file_size) * 100
BG_UploadPart ==
    /\ entry = "upload_to_s3_background" /\ pc = "upload_part"
    /\ \E outcome \in CallOutcomes :
          /\ PutCall(part_num, chunk_data, outcome)
          /\ IF outcome = "ok"
                THEN /\ parts' = Append(parts, Part(part_num, chunk_data))
                     /\ bytes_uploaded' = bytes_uploaded + ChunkLen(chunk_data)
                     /\ IF file_size = 0
                           THEN pc' = "except"
                                /\ exc' = Raise("ZeroDivisionError", "progress")
                           ELSE pc' = "status_progress" /\ exc' = exc
                ELSE /\ exc' = Raise(outcome, "upload_part")
                     /\ pc' = "except"
                     /\ UNCHANGED <<parts, bytes_uploaded>>
    /\ UNCHANGED <<entry, file_path, job_id, chunk_size, max_retries, callback,
                   uploaded_parts, file_size, total_parts, upload_id, part_num,
                   attempt, f_pos, chunk_data, result>>
    /\ UNCHANGED <<files, apiVars>>

\* lines 96-98: update_job_status(job_id, 'processing', progress); part_num += 1
BG_StatusProgress ==
    /\ entry = "upload_to_s3_background" /\ pc = "status_progress"
    /\ \E outcome \in StoreOutcomes :
          /\ Charge(outcome, FALSE)
          /\ IF outcome = "ok"
                THEN /\ update_job_status(job_id, "processing",
                                          Progress(bytes_uploaded, file_size), NoMeta)
                     /\ part_num' = part_num + 1
                     /\ pc' = "read" /\ exc' = exc
                ELSE /\ pc' = "except" /\ exc' = Raise(outcome, "status_progress")
                     /\ part_num' = part_num
                     /\ UNCHANGED apiVars
    /\ UNCHANGED <<entry, file_path, job_id, chunk_size, max_retries, callback,
                   uploaded_parts, file_size, total_parts, upload_id, parts,
                   bytes_uploaded, attempt, f_pos, chunk_data, result>>
    /\ UNCHANGED <<files, s3Vars, callVars>>

\* lines 101-106: complete_multipart_upload
BG_Complete ==
    /\ entry = "upload_to_s3_background" /\ pc = "complete"
    /\ \E outcome \in CallOutcomes :
          /\ CompleteCall(parts, outcome)
          /\ IF outcome = "ok"
                THEN pc' = "remove" /\ exc' = exc
                ELSE pc' = "except" /\ exc' = Raise(outcome, "complete")
    /\ UNCHANGED <<entry, file_path, job_id, chunk_size, max_retries, callback,
                   uploaded_parts, file_size, total_parts, upload_id, parts,
                   bytes_uploaded, part_num, attempt, f_pos, chunk_data, result>>
    /\ UNCHANGED <<files, apiVars>>

\* os.remove(path): succeeds only on an existing file; raises OSError otherwise
\* or when the file system refuses
RemoveOutcomes(path) == IF files[path].exists THEN {"ok"} \cup Faults({"OSError"}) ELSE {"OSError"}
Removed(path) == [files EXCEPT ![path] = [exists |-> FALSE, len |-> 0]]

\* line 109: os.remove(file_path)
BG_Remove ==
    /\ entry = "upload_to_s3_background" /\ pc = "remove"
    /\ \E outcome \in RemoveOutcomes(file_path) :
          /\ Charge(outcome, ~files[file_path].exists)
          /\ IF outcome = "ok"
                THEN files' = Removed(file_path) /\ pc' = "status_completed" /\ exc' = exc
                ELSE files' = files /\ pc' = "except" /\ exc' = Raise(outcome, "remove")
          /\ remove_log' = Append(remove_log, outcome)
    /\ UNCHANGED <<entry, file_path, job_id, chunk_size, max_retries, callback,
                   uploaded_parts, file_size, total_parts, upload_id, parts,
                   bytes_uploaded, part_num, attempt, f_pos, chunk_data, result>>
    /\ UNCHANGED <<s3Vars, put_log, create_calls, complete_args, abort_log, late_calls, apiVars>>

\* lines 112-120: update_job_status(job_id, 'completed', 100, {...}); return
BG_StatusCompleted ==
    /\ entry = "upload_to_s3_background" /\ pc = "status_completed"
    /\ \E outcome \in StoreOutcomes :
          /\ Charge(outcome, FALSE)
          /\ IF outcome = "ok"
                THEN /\ update_job_status(job_id, "completed", Pct(100), ResultMeta)
                     /\ pc' = "done" /\ result' = "returned" /\ exc' = exc
                ELSE /\ pc' = "except" /\ exc' = Raise(outcome, "status_completed")
                     /\ result' = result
                     /\ UNCHANGED apiVars
    /\ UNCHANGED <<entry, file_path, job_id, chunk_size, max_retries, callback,
                   uploaded_parts, file_size, total_parts, upload_id, parts,
                   bytes_uploaded, part_num, attempt, f_pos, chunk_data>>
    /\ UNCHANGED <<files, s3Vars, callVars>>

\* Mutation of BG_Except: the handler records the failure without aborting.
BG_Except_NoAbort ==
    /\ entry = "upload_to_s3_background" /\ pc = "except"
    /\ pc' = "status_failed"
    /\ UNCHANGED <<entry, file_path, job_id, chunk_size, max_retries, callback,
                   uploaded_parts, file_size, total_parts, upload_id, parts,
                   bytes_uploaded, part_num, attempt, f_pos, chunk_data, exc, result>>
    /\ UNCHANGED <<files, s3Vars, histVars, apiVars>>

\* lines 122-131: except Exception: abort_multipart_upload, its own failure
\* swallowed.  With upload_id unbound (the exception came before create
\* returned) evaluating the arguments raises NameError, swallowed as well: no
\* call is issued.
BG_Except ==
    /\ entry = "upload_to_s3_background" /\ pc = "except"
    /\ IF upload_id = "unbound"
          THEN UNCHANGED <<s3Vars, histVars>>
          ELSE \E outcome \in AbortOutcomes : AbortCall(outcome)
    /\ pc' = "status_failed"
    /\ UNCHANGED <<entry, file_path, job_id, chunk_size, max_retries, callback,
                   uploaded_parts, file_size, total_parts, upload_id, parts,
                   bytes_uploaded, part_num, attempt, f_pos, chunk_data, exc, result>>
    /\ UNCHANGED <<files, apiVars>>

\* line 134: update_job_status(job_id, 'failed', 0, {'error': str(e)}); when
\* this write raises, its exception leaves the function and lines 137-140 are
\* not run
BG_StatusFailed ==
    /\ entry = "upload_to_s3_background" /\ pc = "status_failed"
    /\ \E outcome \in StoreOutcomes :
          /\ Charge(outcome, FALSE)
          /\ IF outcome = "ok"
                THEN /\ update_job_status(job_id, "failed", Pct(0), ErrorMeta(exc))
                     /\ pc' = "cleanup"
                     /\ UNCHANGED <<exc, result>>
                ELSE /\ pc' = "done" /\ result' = "raised"
                     /\ exc' = Raise(outcome, "status_failed")
                     /\ UNCHANGED apiVars
    /\ UNCHANGED <<entry, file_path, job_id, chunk_size, max_retries, callback,
                   uploaded_parts, file_size, total_parts, upload_id, parts,
                   bytes_uploaded, part_num, attempt, f_pos, chunk_data>>
    /\ UNCHANGED <<files, s3Vars, callVars>>

\* lines 137-140: if os.path.exists(file_path): os.remove(file_path); raise
BG_Cleanup ==
    /\ entry = "upload_to_s3_background" /\ pc = "cleanup"
    /\ IF files[file_path].exists
          THEN \E outcome \in RemoveOutcomes(file_path) :
                  /\ Charge(outcome, FALSE)
                  /\ IF outcome = "ok"
                        THEN files' = Removed(file_path) /\ exc' = exc
                        ELSE files' = files /\ exc' = Raise(outcome, "cleanup")
                  /\ remove_log' = Append(remove_log, outcome)
          ELSE UNCHANGED <<files, exc, fault_budget, remove_log>>
    /\ pc' = "done" /\ result' = "raised"
    /\ UNCHANGED <<entry, file_path, job_id, chunk_size, max_retries, callback,
                   uploaded_parts, file_size, total_parts, upload_id, parts,
                   bytes_uploaded, part_num, attempt, f_pos, chunk_data>>
    /\ UNCHANGED <<s3Vars, put_log, create_calls, complete_args, abort_log, late_calls, apiVars>>

upload_to_s3_background ==
    \/ BG_StatusProcessing
    \/ BG_GetSize
    \/ BG_Create
    \/ BG_Read
    \/ BG_UploadPart
    \/ BG_StatusProgress
    \/ BG_Complete
    \/ BG_Remove
    \/ BG_StatusCompleted
    \/ BG_Except
    \/ BG_StatusFailed
    \/ BG_Cleanup

\* ------------------------------------------------- handler.py: values
\* Most images uploaded in a run (uuid4 values drawn).
MaxImages == 2
\* str(uuid.uuid4()): the n-th value drawn; every draw gives a new value
Uuid4(n) == n
ImageIds == 1..MaxImages
UserIds == {"user1", "user2"}
\* the tags clients list by
Tags == {"nature", "city"}

\* base64: the characters of the alphabet are written as their values
\* 0..63, the padding character '=' as 64
B64Pad == 64
RECURSIVE b64encode(_)
b64encode(bs) ==
    IF Len(bs) = 0 THEN <<>>
    ELSE IF Len(bs) = 1
       THEN <<bs[1] \div 4, (bs[1] % 4) * 16, B64Pad, B64Pad>>
    ELSE IF Len(bs) = 2
       THEN <<bs[1] \div 4, (bs[1] % 4) * 16 + bs[2] \div 16, (bs[2] % 16) * 4, B64Pad>>
    ELSE <<bs[1] \div 4, (bs[1] % 4) * 16 + bs[2] \div 16,
           (bs[2] % 16) * 4 + bs[3] \div 64, bs[3] % 64>>
         \o b64encode(SubSeq(bs, 4, Len(bs)))
RECURSIVE b64decode(_)
b64decode(cs) ==
    IF Len(cs) < 4 THEN <<>>
    ELSE (IF cs[3] = B64Pad
             THEN <<cs[1] * 4 + cs[2] \div 16>>
          ELSE IF cs[4] = B64Pad
             THEN <<cs[1] * 4 + cs[2] \div 16, (cs[2] % 16) * 16 + cs[3] \div 4>>
          ELSE <<cs[1] * 4 + cs[2] \div 16, (cs[2] % 16) * 16 + cs[3] \div 4,
                 (cs[3] % 4) * 64 + cs[4]>>)
         \o b64decode(SubSeq(cs, 5, Len(cs)))

NoItem == [status |-> "absent"]
\* no object under the key (no byte has the value -1)
NoObject == <<-1>>
\* f"{metadata['user_id']}/{image_id}"
S3Key(user_id, image_id) == <<user_id, image_id>>
S3Keys == {S3Key(u, i) : u \in UserIds, i \in ImageIds}
NoRequest == [op |-> "none"]
\* lambda_handler falls through every branch: the function returns None
None == [raised |-> FALSE, statusCode |-> 0, body |-> "None"]

\* nothing uploaded, no request served
HandlerInit ==
    /\ table = [i \in ImageIds |-> NoItem]
    /\ bucket = [k \in S3Keys |-> NoObject]
    /\ uuids = 0
    /\ h_sent = [i \in ImageIds |-> <<>>]
    /\ h_req = NoRequest /\ h_calls = <<>> /\ h_resp = None

\* ------------------------------------------ direct runs of the functions
\* the chunk that part number n of a file of length len holds
ChunkAt(n, size, len) == Read((n - 1) * size, size, len)

\* The lists a caller can pass as uploaded_parts: any list of at most
\* MaxAcked part numbers (in any order, repeats included), each with the
\* ETag of the bytes of that part.
AckedLists(size, len) ==
    UNION {{[i \in 1..k |-> Part(ns[i], ChunkAt(ns[i], size, len))] : ns \in [1..k -> PartNums]}
           : k \in 0..MaxAcked}

NoFile == [exists |-> FALSE, len |-> 0]
\* Enough faults for every call of one run to fail: a direct run is not
\* limited by the fault budget.
RunFaults == MaxSize * MaxRetries + 3
EmptyStore == [j \in JobIds |-> NoRecord]

\* One direct call of upload_large_file, resume_upload or
\* upload_to_s3_background, with its arguments and the file drawn from the
\* bounded input sets.  resume_upload is given the token of an earlier
\* session, which is still open or has expired, and which holds the parts the
\* caller names.
Init ==
    /\ entry \in {"upload_large_file", "resume_upload", "upload_to_s3_background"}
    /\ pc = IF entry = "upload_to_s3_background" THEN "status_processing" ELSE "getsize"
    /\ job_id = DirectJob
    /\ file_path = TempPath(DirectJob)
    /\ chunk_size \in 1..MaxChunk
    /\ max_retries \in IF entry = "upload_large_file" THEN 1..MaxRetries ELSE {DefaultMaxRetries}
    /\ callback \in IF entry = "upload_large_file" THEN BOOLEAN ELSE {FALSE}
    /\ \E f \in {NoFile} \cup {[exists |-> TRUE, len |-> n] : n \in 0..MaxSize} :
          /\ files = [p \in JobIds |-> IF p = TempPath(DirectJob) THEN f ELSE NoFile]
          /\ uploaded_parts \in IF entry = "resume_upload"
                                   THEN AckedLists(chunk_size, f.len) ELSE {<<>>}
    /\ file_size = 0 /\ total_parts = 0
    /\ upload_id = IF entry = "resume_upload" THEN "token" ELSE "unbound"
    /\ parts = <<>> /\ bytes_uploaded = 0 /\ part_num = 0 /\ attempt = 0
    /\ f_pos = 0 /\ chunk_data = NoChunk
    /\ exc = NoExc /\ result = "running"
    /\ s3_session \in IF entry = "resume_upload" THEN {"open", "expired"} ELSE {"none"}
    /\ s3_parts = [n \in PartNums |->
                     IF \E i \in DOMAIN uploaded_parts : uploaded_parts[i].PartNumber = n
                        THEN ChunkAt(n, chunk_size, files[TempPath(DirectJob)].len)
                        ELSE NoChunk]
    /\ s3_object = <<>>
    /\ put_log = <<>> /\ create_calls = 0 /\ complete_args = <<>>
    /\ abort_log = <<>> /\ late_calls = 0 /\ remove_log = <<>>
    /\ fault_budget = RunFaults
    /\ job_store = EmptyStore
    /\ status_log = [j \in JobIds |-> <<>>]
    /\ upload_store = EmptyStore
    /\ queue = <<>> /\ now = 0 /\ requests = 0
    /\ received = [j \in JobIds |-> 0] /\ issued = [j \in JobIds |-> 0]
    /\ enqueue_log = {} /\ response = NoResponse
    /\ HandlerInit

Next ==
    \/ upload_large_file
    \/ resume_upload
    \/ upload_to_s3_background

Spec == Init /\ [][Next]_vars

\* A run that is given the processor until it ends: every call of a
\* collaborator returns (with a result or with an exception), so the function
\* always takes its next step.
SpecLive == Init /\ [][Next]_vars /\ WF_vars(Next)

\* ------------------------------------------------- the API and its worker
\* Most API requests served in a run of the server.
MaxRequests == 3
\* Largest total_chunks / chunk_number a client sends.
MaxChunks == 2
\* Most faults injected into the worker's calls over a run of the server.
MaxApiFaults == 2

\* lines 169-202: initiate_upload: the session record goes under upload:<id>
initiate_upload ==
    /\ requests < MaxRequests /\ now <= MaxClock
    /\ \E filename \in Filenames, size \in {MaxChunks} :
          /\ upload_store' = [upload_store EXCEPT ![MakeJobId(now, filename)] =
                                 [status |-> "initiated",
                                  job_id |-> MakeJobId(now, filename),
                                  filename |-> filename, file_size |-> size,
                                  expires_at |-> now + RetentionSeconds]]
          /\ issued' = [issued EXCEPT ![MakeJobId(now, filename)] = @ + 1]
    /\ requests' = requests + 1
    /\ UNCHANGED <<job_store, status_log, queue, now, received, enqueue_log, response, hVars>>
    /\ UNCHANGED <<runVars, files, s3Vars, histVars>>

\* chunk.save(f) on a file opened with 'ab': the chunk (one unit) is appended,
\* the file created when absent
Appended(path) == [files EXCEPT ![path] = [exists |-> TRUE, len |-> files[path].len + 1]]

\* lines 205-253: upload_chunk: 404 without a session record; otherwise append
\* the chunk and, when chunk_number == total_chunks, enqueue the worker
upload_chunk ==
    /\ requests < MaxRequests
    /\ \E j \in JobIds, chunk_number \in 1..MaxChunks, total_chunks \in 1..MaxChunks :
          IF redis_get(upload_store, j) = NoRecord
             THEN UNCHANGED <<files, queue, received, enqueue_log>>
             ELSE /\ files[TempPath(j)].len < MaxSize
                  /\ files' = Appended(TempPath(j))
                  /\ received' = [received EXCEPT ![j] = @ + 1]
                  /\ IF chunk_number = total_chunks
                        THEN /\ queue' = Append(queue, j)
                             /\ enqueue_log' = enqueue_log \cup
                                   {[job |-> j, chunk_number |-> chunk_number,
                                     total_chunks |-> total_chunks,
                                     received |-> received[j] + 1]}
                        ELSE UNCHANGED <<queue, enqueue_log>>
    /\ requests' = requests + 1
    /\ UNCHANGED <<job_store, status_log, upload_store, now, issued, response, hVars>>
    /\ UNCHANGED <<runVars, s3Vars, histVars>>

\* lines 256-289: upload_direct: save the file under the job's path, enqueue
upload_direct ==
    /\ requests < MaxRequests /\ now <= MaxClock
    /\ \E filename \in Filenames, size \in 0..MaxChunks :
          /\ files' = [files EXCEPT ![TempPath(MakeJobId(now, filename))] =
                          [exists |-> TRUE, len |-> size]]
          /\ queue' = Append(queue, MakeJobId(now, filename))
          /\ issued' = [issued EXCEPT ![MakeJobId(now, filename)] = @ + 1]
    /\ requests' = requests + 1
    /\ UNCHANGED <<job_store, status_log, upload_store, now, received, enqueue_log, response, hVars>>
    /\ UNCHANGED <<runVars, s3Vars, histVars>>

\* the 404 response of get_upload_status
NotFound == [code |-> 404, body |-> [error |-> "Job not found"]]
\* jsonify(job_data): the stored job_data
Found(rec) == [code |-> 200,
               body |-> [job_id |-> rec.job_id, status |-> rec.status,
                         progress |-> rec.progress, updated_at |-> rec.updated_at,
                         metadata |-> rec.metadata]]
\* the response to GET /upload/status/<j>
StatusResponse(j) ==
    IF redis_get(job_store, j) = NoRecord THEN NotFound ELSE Found(redis_get(job_store, j))

\* lines 292-304: get_upload_status: the record under job:<id>, or 404
get_upload_status ==
    /\ \E j \in JobIds :
          response' = [request |-> j, code |-> StatusResponse(j).code,
                       body |-> StatusResponse(j).body]
    /\ UNCHANGED <<job_store, status_log, upload_store, queue, now, requests,
                   received, issued, enqueue_log, hVars>>
    /\ UNCHANGED <<runVars, files, s3Vars, histVars>>

\* int(time.time()) moves on
Tick ==
    /\ now < MaxClock
    /\ now' = now + 1
    /\ UNCHANGED <<job_store, status_log, upload_store, queue, requests, reqVars>>
    /\ UNCHANGED <<runVars, files, s3Vars, histVars>>

\* The rq worker takes the next job off the queue and calls
\* upload_to_s3_background(temp_file_path, s3_key, S3_BUCKET, job_id); the
\* call starts with fresh locals and a token the blob store has yet to issue.
WorkerDequeue ==
    /\ entry = "idle" /\ queue # <<>>
    /\ entry' = "upload_to_s3_background" /\ pc' = "status_processing"
    /\ job_id' = Head(queue) /\ file_path' = TempPath(Head(queue))
    /\ queue' = Tail(queue)
    /\ UNCHANGED <<chunk_size, max_retries, callback, uploaded_parts, file_size,
                   total_parts, upload_id, parts, bytes_uploaded, part_num,
                   attempt, f_pos, chunk_data, exc, result>>
    /\ UNCHANGED <<files, s3Vars, histVars>>
    /\ UNCHANGED <<job_store, status_log, upload_store, now, requests, reqVars>>

\* The call has returned or raised: its locals are gone and the worker is
\* free for the next job.
WorkerFinish ==
    /\ entry = "upload_to_s3_background" /\ pc = "done"
    /\ entry' = "idle" /\ pc' = "idle"
    /\ job_id' = DirectJob /\ file_path' = TempPath(DirectJob)
    /\ file_size' = 0 /\ total_parts' = 0 /\ upload_id' = "unbound"
    /\ parts' = <<>> /\ bytes_uploaded' = 0 /\ part_num' = 0 /\ attempt' = 0
    /\ f_pos' = 0 /\ chunk_data' = NoChunk /\ exc' = NoExc /\ result' = "running"
    /\ s3_session' = "none" /\ s3_parts' = [n \in PartNums |-> NoChunk]
    /\ put_log' = <<>> /\ create_calls' = 0 /\ complete_args' = <<>>
    /\ abort_log' = <<>> /\ late_calls' = 0 /\ remove_log' = <<>>
    /\ UNCHANGED <<chunk_size, max_retries, callback, uploaded_parts, files,
                   s3_object, fault_budget>>
    /\ UNCHANGED apiVars

\* The server and one worker process start with empty stores and no files.
InitApi ==
    /\ entry = "idle" /\ pc = "idle"
    /\ job_id = DirectJob /\ file_path = TempPath(DirectJob)
    /\ chunk_size \in 1..MaxChunk
    /\ max_retries = DefaultMaxRetries /\ callback = FALSE /\ uploaded_parts = <<>>
    /\ files = [p \in JobIds |-> NoFile]
    /\ file_size = 0 /\ total_parts = 0 /\ upload_id = "unbound"
    /\ parts = <<>> /\ bytes_uploaded = 0 /\ part_num = 0 /\ attempt = 0
    /\ f_pos = 0 /\ chunk_data = NoChunk
    /\ exc = NoExc /\ result = "running"
    /\ s3_session = "none" /\ s3_parts = [n \in PartNums |-> NoChunk]
    /\ s3_object = <<>>
    /\ put_log = <<>> /\ create_calls = 0 /\ complete_args = <<>>
    /\ abort_log = <<>> /\ late_calls = 0 /\ remove_log = <<>>
    /\ fault_budget = MaxApiFaults
    /\ job_store = EmptyStore
    /\ status_log = [j \in JobIds |-> <<>>]
    /\ upload_store = EmptyStore
    /\ queue = <<>> /\ now = 0 /\ requests = 0
    /\ received = [j \in JobIds |-> 0] /\ issued = [j \in JobIds |-> 0]
    /\ enqueue_log = {} /\ response = NoResponse
    /\ HandlerInit

NextApi ==
    \/ initiate_upload
    \/ upload_chunk
    \/ upload_direct
    \/ Tick
    \/ WorkerDequeue
    \/ upload_to_s3_background
    \/ WorkerFinish

SpecApi == InitApi /\ [][NextApi]_vars

\* ------------------------------------------- the status store over time
\* Most update_job_status calls made in a run of the status store.
MaxWrites == 2
\* The run ends two retention windows after the last request's clock value.
Horizon == 2 * RetentionSeconds + MaxClock

\* the calls of update_job_status the worker makes (lines 56, 96, 112, 134)
StatusCalls ==
    {<<"processing", Pct(0), NoMeta>>,
     <<"completed", Pct(100), ResultMeta>>,
     <<"failed", Pct(0), ErrorMeta(Raise("ClientError", "upload_part"))>>}

\* number of update_job_status calls made so far
RECURSIVE Writes(_)
Writes(js) ==
    IF js = {} THEN 0
    ELSE LET j == CHOOSE x \in js : TRUE IN Len(status_log[j]) + Writes(js \ {j})

\* a worker writes the status of a job: update_job_status(j, status, progress, metadata)
StatusWrite ==
    /\ Writes(JobIds) < MaxWrites
    /\ \E j \in JobIds, c \in StatusCalls : update_job_status(j, c[1], c[2], c[3])
    /\ UNCHANGED <<runVars, files, s3Vars, histVars>>

\* a long time passes: a retention window, or a second less
Elapse ==
    /\ \E d \in {RetentionSeconds - 1, RetentionSeconds} :
          /\ now + d <= Horizon
          /\ now' = now + d
    /\ UNCHANGED <<job_store, status_log, upload_store, queue, requests, reqVars>>
    /\ UNCHANGED <<runVars, files, s3Vars, histVars>>

NextStatus ==
    \/ StatusWrite
    \/ get_upload_status
    \/ Tick
    \/ Elapse

\* The job status records as the workers write them and the API reads
\* them, over several retention windows.
SpecStatus == InitApi /\ [][NextStatus]_vars

\* ------------------------------------------------- handler.py: requests
\* everything handler.py does not touch
uploadVars == <<runVars, files, s3Vars, histVars, job_store, status_log, upload_store,
                queue, now, requests, received, issued, enqueue_log, response>>

\* lines 38-42: response(status, body); json.dumps(body) is kept as the value
\* it serialises
Response(status, body) == [raised |-> FALSE, statusCode |-> status, body |-> body]
\* an exception of the call named e leaves the function
Raised(e) == [raised |-> TRUE, statusCode |-> 0, body |-> [error |-> e]]
\* lines 35-36: under lambda_handler the exception becomes a 500 response;
\* a function called directly raises it
Exit(via, e) ==
    h_resp' = IF via = "lambda" THEN Response(500, [error |-> e]) ELSE Raised(e)

\* a call on s3 or on table, with what it was given and how it ended
Call(op, user_id, image_id, tag, outcome) ==
    [op |-> op, user_id |-> user_id, image_id |-> image_id, tag |-> tag,
     outcome |-> outcome]
\* the event of a request
Request(op, via, user_id, image_id, tags, tag, image) ==
    [op |-> op, via |-> via, user_id |-> user_id, image_id |-> image_id,
     tags |-> tags, tag |-> tag, image |-> image]

\* lines 63-73: item
Item(image_id, user_id, tags) ==
    [image_id |-> image_id, user_id |-> user_id, s3_bucket |-> "image-bucket",
     s3_key |-> S3Key(user_id, image_id), tags |-> tags, status |-> "ACTIVE"]

\* Mutation of image_bytes: the body's image stored as it came, not decoded.
image_bytes_Raw(image) == image
\* line 48: image_bytes = base64.b64decode(body["image"])
image_bytes(image) == b64decode(image)

\* lines 45-77: upload_image: put_object, then put_item, then 201
UploadImage(via, user_id, tags, image) ==
    /\ uuids < MaxImages
    /\ uuids' = uuids + 1
    /\ h_req' = Request("upload_image", via, user_id, 0, tags, "", image)
    /\ h_sent' = [h_sent EXCEPT ![Uuid4(uuids + 1)] = image]
    /\ \E fail \in {"none", "put_object", "put_item"} :
          /\ bucket' = IF fail = "put_object" THEN bucket
                       ELSE [bucket EXCEPT ![S3Key(user_id, Uuid4(uuids + 1))] = image_bytes(image)]
          /\ table' = IF fail # "none" THEN table
                      ELSE [table EXCEPT ![Uuid4(uuids + 1)] = Item(Uuid4(uuids + 1), user_id, tags)]
          /\ h_calls' =
                IF fail = "put_object"
                   THEN <<Call("put_object", user_id, Uuid4(uuids + 1), "", "error")>>
                   ELSE <<Call("put_object", user_id, Uuid4(uuids + 1), "", "ok"),
                          Call("put_item", user_id, Uuid4(uuids + 1), "",
                               IF fail = "put_item" THEN "error" ELSE "ok")>>
          /\ IF fail = "none"
                THEN h_resp' = Response(201, Item(Uuid4(uuids + 1), user_id, tags))
                ELSE Exit(via, fail)
    /\ UNCHANGED uploadVars

\* Mutation of ListImages: the tag filter takes precedence over user_id.
ListImages_TagFirst(via, user_id, tag) ==
    /\ h_req' = Request("list_images", via, user_id, 0, <<>>, tag, <<>>)
    /\ \E outcome \in {"ok", "error"} :
          /\ h_calls' = <<Call(IF tag = "" /\ user_id # "" THEN "query" ELSE "scan",
                               IF tag = "" THEN user_id ELSE "", 0, tag, outcome)>>
          /\ IF outcome = "error" THEN Exit(via, "list")
             ELSE h_resp' = Response(200,
                     {table[i] : i \in {k \in ImageIds :
                         /\ table[k] # NoItem
                         /\ IF tag # ""
                               THEN \E n \in DOMAIN table[k].tags : table[k].tags[n] = tag
                               ELSE user_id # "" => table[k].user_id = user_id}})
    /\ UNCHANGED <<table, bucket, uuids, h_sent>>
    /\ UNCHANGED uploadVars

\* lines 80-97: list_images: a query on UserIndex when user_id is given, else
\* a scan filtered on tags when tag is given, else a scan; a parameter that
\* is absent (None) or empty is written ""
ListImages(via, user_id, tag) ==
    /\ h_req' = Request("list_images", via, user_id, 0, <<>>, tag, <<>>)
    /\ \E outcome \in {"ok", "error"} :
          /\ h_calls' = <<Call(IF user_id # "" THEN "query" ELSE "scan",
                               user_id, 0, IF user_id # "" THEN "" ELSE tag, outcome)>>
          /\ IF outcome = "error" THEN Exit(via, "list")
             ELSE h_resp' = Response(200,
                     {table[i] : i \in {k \in ImageIds :
                         /\ table[k] # NoItem
                         /\ IF user_id # ""
                               THEN table[k].user_id = user_id
                               ELSE tag # "" =>
                                       \E n \in DOMAIN table[k].tags : table[k].tags[n] = tag}})
    /\ UNCHANGED <<table, bucket, uuids, h_sent>>
    /\ UNCHANGED uploadVars

\* lines 100-113: get_image: get_item; 404 without an item; else get_object
\* (NoSuchKey when the object is gone) and 200 with the encoded bytes
GetImage(via, image_id) ==
    /\ h_req' = Request("get_image", via, "", image_id, <<>>, "", <<>>)
    /\ \E fail \in {"none", "get_item", "get_object"} :
          CASE fail = "get_item" ->
                  /\ h_calls' = <<Call("get_item", "", image_id, "", "error")>>
                  /\ Exit(via, fail)
            [] fail # "get_item" /\ table[image_id] = NoItem ->
                  /\ h_calls' = <<Call("get_item", "", image_id, "", "ok")>>
                  /\ h_resp' = Response(404, [message |-> "Not found"])
            [] OTHER ->
                  IF fail = "get_object" \/ bucket[table[image_id].s3_key] = NoObject
                     THEN /\ h_calls' = <<Call("get_item", "", image_id, "", "ok"),
                                          Call("get_object", table[image_id].user_id,
                                               image_id, "", "error")>>
                          /\ Exit(via, "get_object")
                     ELSE /\ h_calls' = <<Call("get_item", "", image_id, "", "ok"),
                                          Call("get_object", table[image_id].user_id,
                                               image_id, "", "ok")>>
                          /\ h_resp' = Response(200,
                                [image |-> b64encode(bucket[table[image_id].s3_key]),
                                 metadata |-> table[image_id]])
    /\ UNCHANGED <<table, bucket, uuids, h_sent>>
    /\ UNCHANGED uploadVars

\* Mutation of DeleteImage: the record is deleted, the object left in the
\* bucket.
DeleteImage_RecordOnly(via, image_id) ==
    /\ h_req' = Request("delete_image", via, "", image_id, <<>>, "", <<>>)
    /\ IF table[image_id] = NoItem
          THEN /\ h_calls' = <<Call("get_item", "", image_id, "", "ok")>>
               /\ h_resp' = Response(404, [message |-> "Not found"])
               /\ table' = table
          ELSE /\ h_calls' = <<Call("get_item", "", image_id, "", "ok"),
                               Call("delete_item", "", image_id, "", "ok")>>
               /\ table' = [table EXCEPT ![image_id] = NoItem]
               /\ h_resp' = Response(204, <<>>)
    /\ UNCHANGED <<bucket, uuids, h_sent>>
    /\ UNCHANGED uploadVars

\* lines 116-126: delete_image: get_item; 404 without an item; else
\* delete_object, then delete_item, then 204
DeleteImage(via, image_id) ==
    /\ h_req' = Request("delete_image", via, "", image_id, <<>>, "", <<>>)
    /\ \E fail \in {"none", "get_item", "delete_object", "delete_item"} :
          CASE fail = "get_item" ->
                  /\ h_calls' = <<Call("get_item", "", image_id, "", "error")>>
                  /\ Exit(via, fail)
                  /\ UNCHANGED <<table, bucket>>
            [] fail # "get_item" /\ table[image_id] = NoItem ->
                  /\ h_calls' = <<Call("get_item", "", image_id, "", "ok")>>
                  /\ h_resp' = Response(404, [message |-> "Not found"])
                  /\ UNCHANGED <<table, bucket>>
            [] fail = "delete_object" /\ table[image_id] # NoItem ->
                  /\ h_calls' = <<Call("get_item", "", image_id, "", "ok"),
                                  Call("delete_object", table[image_id].user_id,
                                       image_id, "", "error")>>
                  /\ Exit(via, fail)
                  /\ UNCHANGED <<table, bucket>>
            [] OTHER ->
                  /\ bucket' = [bucket EXCEPT ![table[image_id].s3_key] = NoObject]
                  /\ h_calls' = <<Call("get_item", "", image_id, "", "ok"),
                                  Call("delete_object", table[image_id].user_id,
                                       image_id, "", "ok"),
                                  Call("delete_item", "", image_id, "",
                                       IF fail = "delete_item" THEN "error" ELSE "ok")>>
                  /\ IF fail = "delete_item"
                        THEN table' = table /\ Exit(via, fail)
                        ELSE /\ table' = [table EXCEPT ![image_id] = NoItem]
                             /\ h_resp' = Response(204, <<>>)
    /\ UNCHANGED <<uuids, h_sent>>
    /\ UNCHANGED uploadVars

\* the requests clients send: uploads by two users, with no, one and two
\* tags, of images of 1, 2 and 3 bytes (the three paddings of base64)
UploadInputs ==
    {<<"user1", <<"nature">>, b64encode(<<255>>)>>,
     <<"user1", <<"nature", "city">>, b64encode(<<0, 16>>)>>,
     <<"user2", <<>>, b64encode(<<77, 97, 110>>)>>}
ListInputs == (UserIds \cup {""}) \X (Tags \cup {""})

\* the functions called directly, as the tests do
upload_image == \E x \in UploadInputs : UploadImage("direct", x[1], x[2], x[3])
list_images == \E x \in ListInputs : ListImages("direct", x[1], x[2])
get_image == \E i \in ImageIds : GetImage("direct", i)
delete_image == \E i \in ImageIds : DeleteImage("direct", i)

\* the paths of the events: '/images/' is in the last one only
Paths == {"/upload", "/images", "/images/id"}
Methods == {"POST", "GET", "DELETE", "PUT"}

\* lines 21-36: lambda_handler: route on method and path; no route: None
lambda_handler ==
    \E http_method \in Methods, path \in Paths :
       CASE http_method = "POST" /\ path = "/upload" ->
               \E x \in UploadInputs : UploadImage("lambda", x[1], x[2], x[3])
         [] http_method = "GET" /\ path = "/images" ->
               \E x \in ListInputs : ListImages("lambda", x[1], x[2])
         [] http_method = "GET" /\ path = "/images/id" ->
               \E i \in ImageIds : GetImage("lambda", i)
         [] http_method = "DELETE" /\ path = "/images/id" ->
               \E i \in ImageIds : DeleteImage("lambda", i)
         [] OTHER ->
               /\ h_req' = NoRequest /\ h_calls' = <<>> /\ h_resp' = None
               /\ UNCHANGED <<table, bucket, uuids, h_sent>>
               /\ UNCHANGED uploadVars

NextHandler ==
    \/ upload_image
    \/ list_images
    \/ get_image
    \/ delete_image
    \/ lambda_handler

\* The image API of handler.py on an empty table and bucket (the uploader
\* and its part size play no part in it).
InitHandler == InitApi /\ chunk_size = 1
SpecHandler == InitHandler /\ [][NextHandler]_vars

\* ================================================================ claims
\* ceil(S / P), written without CeilDiv
SpecCeil(size, psize) == IF size % psize = 0 THEN size \div psize ELSE size \div psize + 1
\* the bytes [(k-1)*P, min(k*P, S)) of a source of S bytes
SpecRange(k, size, psize) ==
    [lo |-> (k - 1) * psize, hi |-> IF k * psize <= size THEN k * psize ELSE size]
\* positions of the upload_part calls made for part number k
PutCallsFor(k) == {i \in DOMAIN put_log : put_log[i].PartNumber = k}
\* positions of the upload_part calls for part number k with the given outcome
PutCallsWith(k, outcome) == {i \in PutCallsFor(k) : put_log[i].outcome = outcome}
\* number of entries of a Parts list with part number k
EntriesFor(ps, k) == Cardinality({i \in DOMAIN ps : ps[i].PartNumber = k})
\* the terminal statuses
Terminal == {"completed", "failed"}

\* C1: for every job id, once a record with status completed or failed has
\* been written to the job status store, no later write for that job id
\* carries a different status.
C1_StatusMonotonic ==
    \A j \in JobIds : \A i, k \in DOMAIN status_log[j] :
        (i < k /\ status_log[j][i] \in Terminal) => status_log[j][k] = status_log[j][i]

\* An upload has ended in failure: an exception has left upload_large_file,
\* or the job run by upload_to_s3_background has status failed.
UploadFailed ==
    \/ entry = "upload_large_file" /\ pc = "done" /\ result = "raised"
    \/ entry = "upload_to_s3_background" /\ job_store[job_id].status = "failed"

\* the steps C2 lists: create, put-part, complete, file removal, status write
C2_Steps == {"create", "upload_part", "complete", "remove", "cleanup",
             "status_processing", "status_progress", "status_completed"}

\* C2 (as claimed): whenever an upload ends in failure at one of the listed
\* steps, abort_multipart has been issued exactly once and no multipart
\* session of the job remains open.
C2_AbortExactlyOnceNothingOpen ==
    (UploadFailed /\ exc.at \in C2_Steps) => (Len(abort_log) = 1 /\ s3_session # "open")

\* C2 (amended): whenever an upload ends in failure, abort_multipart has
\* been issued exactly once if create_multipart had returned a token and not
\* at all otherwise (then there is no session); the session is closed when
\* that abort call succeeded, and is left open only by an abort call that
\* itself failed.
C2_AbortOncePerToken ==
    UploadFailed =>
        /\ Len(abort_log) = (IF upload_id = "token" THEN 1 ELSE 0)
        /\ (upload_id = "unbound" => s3_session = "none")
        /\ (abort_log = <<"ok">> => s3_session = "aborted")
        /\ (s3_session = "open" => abort_log = <<"error">>)

\* C2 witness: a background job failed at a put-part call, and its abort
\* closed the session
C2_Witness ==
    /\ entry = "upload_to_s3_background" /\ job_store[job_id].status = "failed"
    /\ exc.at = "upload_part" /\ Len(put_log) = 2
    /\ abort_log = <<"ok">> /\ s3_session = "aborted"

\* no call of the run has failed
FailureFree == fault_budget = RunFaults

\* C3: a failure-free run of upload_large_file or of upload_to_s3_background
\* on a file of S bytes with part size P returns after exactly ceil(S/P)
\* upload_part calls, all successful, numbered 1..ceil(S/P) in ascending
\* order, part k carrying the bytes [(k-1)*P, min(k*P, S)); the parts are
\* listed to complete in that order and the assembled object is the source.
C3_PartsCoverSource ==
    (/\ entry \in {"upload_large_file", "upload_to_s3_background"}
     /\ pc = "done" /\ FailureFree /\ exc.at # "getsize") =>
        /\ result = "returned"
        /\ put_log = [k \in 1..SpecCeil(file_size, chunk_size) |->
                        [PartNumber |-> k,
                         Body |-> SpecRange(k, file_size, chunk_size),
                         outcome |-> "ok"]]
        /\ Len(complete_args) = 1
        /\ PartNumbersOf(complete_args[1]) = [k \in 1..SpecCeil(file_size, chunk_size) |-> k]
        /\ s3_object = [i \in 1..file_size |-> i - 1]

\* C3 witness: the background worker has uploaded a 3-unit file in parts of
\* 2 units (a full part and a short last part) without a failure
C3_Witness ==
    /\ entry = "upload_to_s3_background" /\ pc = "done" /\ FailureFree
    /\ result = "returned" /\ file_size = 3 /\ chunk_size = 2
    /\ Len(put_log) = 2 /\ s3_object = <<0, 1, 2>>

\* the part numbers the caller of resume_upload names as uploaded
AckedNums == {uploaded_parts[i].PartNumber : i \in DOMAIN uploaded_parts}

\* C4: resume_upload never calls upload_part for a part number of the
\* caller's uploaded_parts, calls it at most once for any part number, and
\* by the time it calls complete has called it exactly once for each part
\* number of 1..ceil(S/P) that is not in uploaded_parts (and for no other).
C4_ResumeUploadsOnlyTheGap ==
    entry = "resume_upload" =>
        /\ \A i \in DOMAIN put_log : put_log[i].PartNumber \notin AckedNums
        /\ \A k \in PartNums : Cardinality(PutCallsFor(k)) <= 1
        /\ complete_args # <<>> =>
              \A k \in PartNums :
                 Cardinality(PutCallsFor(k)) =
                    IF k \in 1..SpecCeil(file_size, chunk_size) /\ k \notin AckedNums
                       THEN 1 ELSE 0

\* C4 witness: a resume that was told part 2 of 3 is uploaded has uploaded
\* parts 1 and 3 and completed
C4_Witness ==
    /\ entry = "resume_upload" /\ result = "returned"
    /\ AckedNums = {2} /\ file_size = 3 /\ chunk_size = 1
    /\ Len(put_log) = 2

\* the list of part numbers ns is strictly ascending
Ascending(ns) == \A i, k \in DOMAIN ns : i < k => ns[i] < ns[k]

\* C5: when resume_upload calls complete_multipart, the parts list it
\* passes has exactly ceil(S/P) entries, one for each part number of
\* 1..ceil(S/P), whatever uploaded_parts list the caller supplied.
C5_ResumeCompletesCeilParts ==
    (entry = "resume_upload" /\ complete_args # <<>>) =>
        /\ Len(complete_args[1]) = SpecCeil(file_size, chunk_size)
        /\ \A k \in 1..SpecCeil(file_size, chunk_size) : EntriesFor(complete_args[1], k) = 1

\* C6: for every subset of 1..ceil(S/P) supplied as uploaded_parts (here:
\* listed in ascending order), resume_upload calls complete_multipart once,
\* with a parts list in strictly ascending part-number order.
C6_ResumeCompletesSorted ==
    (/\ entry = "resume_upload" /\ complete_args # <<>>
     /\ Ascending(PartNumbersOf(uploaded_parts))
     /\ AckedNums \subseteq 1..SpecCeil(file_size, chunk_size)) =>
        /\ Len(complete_args) = 1
        /\ Ascending(PartNumbersOf(complete_args[1]))

\* every fault of the run so far was a ClientError of upload_part that left
\* the part with retries to spare
OnlyRetriedFaults ==
    /\ exc.at # "getsize"
    /\ Cardinality({i \in DOMAIN put_log : put_log[i].outcome = "ClientError"})
          = RunFaults - fault_budget
    /\ \A k \in PartNums : Cardinality(PutCallsWith(k, "ClientError")) < max_retries

\* C7: in upload_large_file, a part k whose upload_part call succeeded after
\* j ClientErrors has j < max_retries and got exactly j+1 calls, each with
\* part number k and the bytes of part k; it is in the parts list exactly
\* once and is not what the upload fails on; and a run whose only faults
\* were such retried ClientErrors returns, having completed with the parts
\* 1..ceil(S/P).
C7_RetryThenSuccess ==
    entry = "upload_large_file" =>
        /\ \A k \in PartNums : PutCallsWith(k, "ok") # {} =>
              /\ Cardinality(PutCallsWith(k, "ClientError")) < max_retries
              /\ Cardinality(PutCallsFor(k)) = Cardinality(PutCallsWith(k, "ClientError")) + 1
              /\ \A i \in PutCallsFor(k) : put_log[i].Body = SpecRange(k, file_size, chunk_size)
              /\ EntriesFor(parts, k) = 1
              /\ exc.part # k
        /\ (pc = "done" /\ OnlyRetriedFaults) =>
              /\ result = "returned"
              /\ Len(complete_args) = 1
              /\ PartNumbersOf(complete_args[1]) = [k \in 1..SpecCeil(file_size, chunk_size) |-> k]

\* C7 witness: with max_retries = 3, part 2 of 3 failed twice and succeeded
\* on the third call, and the upload has returned
C7_Witness ==
    /\ entry = "upload_large_file" /\ pc = "done" /\ result = "returned"
    /\ max_retries = 3 /\ total_parts = 3
    /\ Cardinality(PutCallsWith(2, "ClientError")) = 2
    /\ Cardinality(PutCallsFor(2)) = 3
    /\ Len(put_log) = 5

\* C8: in upload_large_file, once upload_part has failed max_retries times
\* with a ClientError for part k, exactly max_retries calls were made for
\* part k, none for a later part, complete is never called, the exception
\* names part k and max_retries attempts, and when it leaves the function
\* one abort call has been issued.
C8_RetriesExhausted ==
    entry = "upload_large_file" =>
        \A k \in PartNums : Cardinality(PutCallsWith(k, "ClientError")) >= max_retries =>
            /\ Cardinality(PutCallsFor(k)) = max_retries
            /\ \A i \in DOMAIN put_log : put_log[i].PartNumber <= k
            /\ complete_args = <<>>
            /\ pc \in {"except", "done"}
            /\ exc = [kind |-> "Exception", at |-> "upload_part",
                      part |-> k, attempts |-> max_retries]
            /\ pc = "done" => (result = "raised" /\ Len(abort_log) = 1)

\* C8 witness: with max_retries = 3, part 2 of 3 failed three times and the
\* upload has raised after its abort call
C8_Witness ==
    /\ entry = "upload_large_file" /\ pc = "done" /\ result = "raised"
    /\ max_retries = 3 /\ total_parts = 3
    /\ Cardinality(PutCallsWith(2, "ClientError")) = 3
    /\ abort_log = <<"ok">>

\* C9: in upload_to_s3_background, the job status becomes failed on a
\* ClientError of upload_part only after the call has been made max_retries
\* (default 3) times for that part.
C9_BackgroundRetriesPutPart ==
    (/\ entry = "upload_to_s3_background"
     /\ job_store[job_id].status = "failed"
     /\ job_store[job_id].metadata.error.at = "upload_part"
     /\ job_store[job_id].metadata.error.kind = "ClientError") =>
        Cardinality(PutCallsFor(part_num)) = DefaultMaxRetries

\* C10: once complete_multipart or abort_multipart has succeeded for the
\* token, no further upload_part, complete or abort call is issued with it.
C10_NoCallAfterClose == late_calls = 0


\* the Parts list ps names exactly the part numbers 1..Len(ps), each once
Contiguous(ps) ==
    /\ \A k \in 1..Len(ps) : EntriesFor(ps, k) = 1
    /\ \A i \in DOMAIN ps : ps[i].PartNumber \in 1..Len(ps)

\* C11: complete_multipart is never called with a parts list that has a gap
\* or a duplicate part number (such a list raises IncompleteParts before any
\* backend complete call), in upload_large_file, upload_to_s3_background and
\* resume_upload.
C11_CompleteOnlyContiguous ==
    \A i \in DOMAIN complete_args : Contiguous(complete_args[i])


\* C12: upload_chunk enqueues the background job of a job id only when the
\* number of chunks received for that job id equals the total_chunks the
\* client declared; the chunk numbered total_chunks arriving before the
\* others does not queue the job.
C12_QueuedOnlyWhenAllReceived ==
    \A e \in enqueue_log : e.received = e.total_chunks

\* the worker runs of job id j that are waiting in the queue or running
WorkerRuns(j) ==
    Cardinality({i \in DOMAIN queue : queue[i] = j})
       + (IF entry = "upload_to_s3_background" /\ pc # "done" /\ job_id = j THEN 1 ELSE 0)

\* C13: at most one background worker run is enqueued or active for a job
\* id, whatever upload_chunk and upload_direct requests are made (here: for
\* a job id that was given out once, so that a second run is not the effect
\* of two sessions sharing the id).
C13_OneWorkerPerJob ==
    \A j \in JobIds : issued[j] <= 1 => WorkerRuns(j) <= 1

\* C14: no two initiate_upload / upload_direct calls are given the same job
\* id.
C14_JobIdsUnique ==
    \A j \in JobIds : issued[j] <= 1


\* C15: after initiate_upload has returned a job id, and until the first
\* update_job_status write for it, get_upload_status answers with a record
\* of status initiated (not with 404) as long as the retention window of the
\* initiate record has not elapsed.
C15_InitiatedRecordVisible ==
    \A j \in JobIds :
        (redis_get(upload_store, j) # NoRecord /\ status_log[j] = <<>>) =>
            (StatusResponse(j).code = 200 /\ StatusResponse(j).body.status = "initiated")

\* the retention window the specification states: 24 hours, in seconds
SpecWindow == 24 * 60 * 60

\* C16: get_upload_status answers a job id with its record exactly while
\* fewer than 24 hours have passed since the most recent update_job_status
\* write for it, and otherwise (never written, or expired) with the one
\* NotFound response, which carries nothing of the job.
C16_NotFoundIffAbsentOrExpired ==
    /\ \A j \in JobIds :
          IF status_log[j] # <<>> /\ now < job_store[j].updated_at + SpecWindow
             THEN /\ StatusResponse(j).code = 200
                  /\ StatusResponse(j).body.job_id = j
                  /\ StatusResponse(j).body.status = status_log[j][Len(status_log[j])]
             ELSE StatusResponse(j) = [code |-> 404, body |-> [error |-> "Job not found"]]
    /\ response.code = 404 => response.body = [error |-> "Job not found"]
    /\ response.code \in {0, 200, 404}

\* C16 witness: a job id written twice, the second write late in the window
\* of the first, has expired a full window after the second write and is
\* answered exactly as a job id that was never written
C16_Witness ==
    \E j, k \in JobIds :
        /\ Len(status_log[j]) = 2 /\ status_log[k] = <<>>
        /\ job_store[j].updated_at = RetentionSeconds - 1
        /\ now = job_store[j].updated_at + RetentionSeconds
        /\ response.request = j /\ response.code = 404
        /\ StatusResponse(j) = StatusResponse(k)


\* C17: when create_multipart_upload fails in upload_to_s3_background, no
\* record with status processing is written for the job at any point of the
\* run.
C17_CreateFailureNeverProcessing ==
    (entry = "upload_to_s3_background" /\ create_calls = 1 /\ upload_id = "unbound") =>
        \A i \in DOMAIN status_log[job_id] : status_log[job_id][i] # "processing"

\* the steps that delete the local temporary file
RemovalSteps == {"remove", "cleanup"}

\* C18: in upload_to_s3_background a failure to delete the temporary file
\* is never the exception that reaches the caller and never what the job's
\* status records: a job recorded as failed carries the error of another
\* step, and a job whose complete call succeeded is not made to fail by the
\* removal.
C18_RemovalFailureIsSilent ==
    entry = "upload_to_s3_background" =>
        /\ (pc = "done" /\ result = "raised") => exc.at \notin RemovalSteps
        /\ job_store[job_id].status = "failed" =>
              job_store[job_id].metadata.error.at \notin RemovalSteps

\* C19: whenever upload_to_s3_background returns or raises, it has attempted
\* to delete the local temporary file (or the file does not exist).
C19_CleanupNeverSkipped ==
    (entry = "upload_to_s3_background" /\ pc = "done") =>
        (remove_log # <<>> \/ ~files[file_path].exists)

\* C20: when a failure of an upload_part or complete call on the open token
\* leaves upload_large_file, resume_upload or upload_to_s3_background, an
\* abort call has been issued before, and upload_to_s3_background has
\* recorded status failed with an error.
C20_AbortBeforeFaultEscapes ==
    (/\ pc = "done" /\ result = "raised"
     /\ exc.at \in {"upload_part", "complete"} /\ s3_session # "expired") =>
        /\ abort_log # <<>>
        /\ entry = "upload_to_s3_background" =>
              /\ job_store[job_id].status = "failed"
              /\ job_store[job_id].metadata.has = "error"


\* The part-count ceiling of the blob store (10,000 parts with S3), scaled to
\* the file sizes of the model: a file of MaxSize units in parts of one unit
\* needs more parts than the ceiling allows.
PartCountCeiling == 3

\* C21: no upload_part call carries a part number above the part-count
\* ceiling of the blob store: a file that needs more parts is uploaded in
\* larger parts, or the upload fails with TooManyParts before any upload_part
\* call.
C21_NoPartAboveCeiling ==
    entry \in {"upload_large_file", "upload_to_s3_background"} =>
        \A i \in DOMAIN put_log : put_log[i].PartNumber <= PartCountCeiling


\* C22: in a failure-free run of upload_to_s3_background on a file of S > 0
\* bytes, no progress written exceeds 100; the last record written while
\* processing has bytes_uploaded = S and progress exactly 100; and the final
\* record has status completed and progress 100.
C22_ProgressReaches100 ==
    (entry = "upload_to_s3_background" /\ FailureFree /\ file_size > 0) =>
        /\ job_store[job_id].progress.num <= 100 * job_store[job_id].progress.den
        /\ pc \in {"complete", "remove", "status_completed"} =>
              /\ job_store[job_id].status = "processing"
              /\ job_store[job_id].progress.num = 100 * job_store[job_id].progress.den
              /\ bytes_uploaded = file_size
        /\ pc = "done" =>
              /\ job_store[job_id].status = "completed"
              /\ job_store[job_id].progress.num = 100 * job_store[job_id].progress.den

\* C22 witness: the worker has completed a 3-unit file uploaded in parts of
\* 2 units (2 parts, the last one short), its record at progress 100
C22_Witness ==
    /\ entry = "upload_to_s3_background" /\ FailureFree /\ pc = "done"
    /\ file_size = 3 /\ chunk_size = 2 /\ bytes_uploaded = 3
    /\ status_log[job_id] = <<"processing", "processing", "processing", "completed">>
    /\ job_store[job_id].progress = [num |-> 100, den |-> 1]


\* the last upload_part call made
LastPut(log) == log[Len(log)]

\* C23: within a run of upload_large_file or upload_to_s3_background,
\* bytes_uploaded never decreases; it changes only in a step whose
\* upload_part call succeeded, and then grows by the length of that part; a
\* failed attempt leaves it unchanged; and the progress of successive
\* processing records of the job never decreases.
C23_BytesUploadedMonotone ==
    [][(entry \in {"upload_large_file", "upload_to_s3_background"} /\ entry' = entry) =>
          /\ bytes_uploaded' >= bytes_uploaded
          /\ bytes_uploaded' # bytes_uploaded => Len(put_log') = Len(put_log) + 1
          /\ Len(put_log') = Len(put_log) + 1 =>
                bytes_uploaded' = bytes_uploaded +
                    (IF LastPut(put_log').outcome = "ok"
                        THEN LastPut(put_log').Body.hi - LastPut(put_log').Body.lo
                        ELSE 0)
          /\ (job_store[job_id].status = "processing" /\ job_store'[job_id].status = "processing") =>
                job_store'[job_id].progress.num * job_store[job_id].progress.den
                   >= job_store[job_id].progress.num * job_store'[job_id].progress.den
      ]_vars

\* C23 witness: upload_large_file has uploaded part 1, failed once on part 2
\* and uploaded it on the retry: two units uploaded after three calls
C23_Witness ==
    /\ entry = "upload_large_file" /\ chunk_size = 1 /\ bytes_uploaded = 2
    /\ [i \in DOMAIN put_log |-> put_log[i].outcome] = <<"ok", "ClientError", "ok">>


\* C27: once upload_to_s3_background has started for a job, and every call
\* it makes returns, the job's record eventually has status completed or
\* failed.
C27_EventuallyTerminal ==
    (entry = "upload_to_s3_background") ~> (job_store[job_id].status \in Terminal)


AllOk(calls) == \A i \in DOMAIN calls : calls[i].outcome = "ok"
\* the names of the calls made, in order
Ops(calls) == [i \in DOMAIN calls |-> calls[i].op]

\* C24: a delete_image request whose calls all return, for an image id with
\* a catalog record, calls delete_object for the record's key and
\* delete_item for the id, each once, removes the object and the record, and
\* returns 204; for an id without a record it returns 404 after get_item
\* alone, and leaves bucket and table as they were.
C24_DeleteImage ==
    [][(h_req'.op = "delete_image" /\ AllOk(h_calls')) =>
          IF table[h_req'.image_id] # NoItem
             THEN /\ Ops(h_calls') = <<"get_item", "delete_object", "delete_item">>
                  /\ S3Key(h_calls'[2].user_id, h_calls'[2].image_id)
                        = table[h_req'.image_id].s3_key
                  /\ h_calls'[3].image_id = h_req'.image_id
                  /\ bucket' = [bucket EXCEPT ![table[h_req'.image_id].s3_key] = NoObject]
                  /\ table' = [table EXCEPT ![h_req'.image_id] = NoItem]
                  /\ ~h_resp'.raised /\ h_resp'.statusCode = 204
             ELSE /\ Ops(h_calls') = <<"get_item">>
                  /\ bucket' = bucket /\ table' = table
                  /\ ~h_resp'.raised /\ h_resp'.statusCode = 404
      ]_vars

\* C24 witness: an uploaded image has been deleted with 204: its record and
\* its object are gone
C24_Witness ==
    /\ h_req.op = "delete_image" /\ ~h_resp.raised /\ h_resp.statusCode = 204
    /\ h_sent[h_req.image_id] # <<>> /\ table[h_req.image_id] = NoItem
    /\ \A k \in S3Keys : k[2] = h_req.image_id => bucket[k] = NoObject
    /\ Len(h_calls) = 3

\* the standard base64 text of the three uploaded images: "/w==", "ABA=",
\* "TWFu"
StandardBase64 ==
    {[bytes |-> <<255>>, text |-> <<63, 48, 64, 64>>],
     [bytes |-> <<0, 16>>, text |-> <<0, 1, 0, 64>>],
     [bytes |-> <<77, 97, 110>>, text |-> <<19, 22, 5, 46>>]}
\* the bytes that the base64 text stands for
Decoded(text) == (CHOOSE p \in StandardBase64 : p.text = text).bytes

\* C25: an upload_image request whose calls all return, direct or through
\* lambda_handler, calls put_object and put_item once each, adds one object
\* (the decoded image, under a new key) and one record, and returns 201 with
\* the record; a get_image request whose calls all return gives, for an id
\* with a record, 200 with the record and an image that decodes to the bytes
\* uploaded for that id, and for an id without a record 404 after get_item
\* alone.
C25_UploadThenGet ==
    [][/\ (h_req'.op = "upload_image" /\ AllOk(h_calls')) =>
             /\ Ops(h_calls') = <<"put_object", "put_item">>
             /\ table[uuids'] = NoItem
             /\ bucket[S3Key(h_req'.user_id, uuids')] = NoObject
             /\ bucket' = [bucket EXCEPT ![S3Key(h_req'.user_id, uuids')] =
                                             Decoded(h_req'.image)]
             /\ \A i \in ImageIds : i # uuids' => table'[i] = table[i]
             /\ table'[uuids'].image_id = uuids'
             /\ table'[uuids'].user_id = h_req'.user_id
             /\ table'[uuids'].tags = h_req'.tags
             /\ table'[uuids'].s3_key = S3Key(h_req'.user_id, uuids')
             /\ ~h_resp'.raised /\ h_resp'.statusCode = 201
             /\ h_resp'.body = table'[uuids']
       /\ (h_req'.op = "get_image" /\ AllOk(h_calls')) =>
             IF table[h_req'.image_id] # NoItem
                THEN /\ Ops(h_calls') = <<"get_item", "get_object">>
                     /\ ~h_resp'.raised /\ h_resp'.statusCode = 200
                     /\ Decoded(h_resp'.body.image) = Decoded(h_sent[h_req'.image_id])
                     /\ h_resp'.body.metadata = table[h_req'.image_id]
                     /\ table[h_req'.image_id].image_id = h_req'.image_id
                ELSE /\ Ops(h_calls') = <<"get_item">>
                     /\ ~h_resp'.raised /\ h_resp'.statusCode = 404
      ]_vars

\* C25 witness: the 3-byte image of user2, uploaded through lambda_handler
\* or directly, has been fetched: the response carries "TWFu"
C25_Witness ==
    /\ h_req.op = "get_image" /\ ~h_resp.raised /\ h_resp.statusCode = 200
    /\ h_resp.body.image = <<19, 22, 5, 46>>
    /\ h_resp.body.metadata.user_id = "user2"
    /\ bucket[S3Key("user2", h_req.image_id)] = <<77, 97, 110>>

\* the records of the catalog
Records == {table[i] : i \in {k \in ImageIds : table[k] # NoItem}}
\* the record r lists the tag t
HasTag(r, t) == \E n \in DOMAIN r.tags : r.tags[n] = t

C29_NoRecordWithoutObject ==
    \A i \in ImageIds : table[i] # NoItem => bucket[table[i].s3_key] # NoObject

=============================================================================
